---- MODULE Spec2Model ----
(***************************************************************************)
(* The two-phase transaction signing flow of class Bitcoin                 *)
(* (core/src/apps/wallet/sign_tx/signing.py).  The signer is a coroutine:  *)
(* every await on the host transport or on a confirmation prompt is a      *)
(* suspension point.  pc names the suspension point (or loop head) the     *)
(* coroutine is at; one action resumes it there and runs it to the next.   *)
(* The host is untrusted: every record it returns is drawn from a small    *)
(* alphabet, and in phase 2 it may deviate from what it streamed in        *)
(* phase 1.                                                                *)
(***************************************************************************)
EXTENDS Integers, Sequences, FiniteSets, TLC

\* ---------------------------------------------------------------- bounds
\* inputs_count of the transaction to sign ranges over 0..MaxInputs
MaxInputs == 2
\* outputs_count of the transaction to sign ranges over 1..MaxOutputs
MaxOutputs == 2
\* how many phase-2 responses of one run may differ from the phase-1 record
MaxTamper == 1

\* ------------------------------------------------------ program constants
BIP32_WALLET_DEPTH == 2
BIP32_CHANGE_CHAIN == 1
BIP32_MAX_LAST_ELEMENT == 1000000
SIGHASH_ALL == 1

\* ------------------------------------------------------------ Python data
\* None of an Optional[List[int]] (paths hold naturals only)
NoPath == <<-1>>
\* None of an optional multisig descriptor
NoMultisig == [pubkeys |-> <<>>, m |-> 0]
\* None of an optional signature
NoSignature == <<>>
\* None of an optional signature_index
NoIndex == -1

RECURSIVE SumSeq(_)
SumSeq(s) == IF s = <<>> THEN 0 ELSE Head(s) + SumSeq(Tail(s))

\* s[:-n] of a Python list
DropLast(s, n) == IF Len(s) <= n THEN <<>> ELSE SubSeq(s, 1, Len(s) - n)

\* -------------------------------------------------- collaborators: writers
write_uint32(w, n) == Append(w, <<"u32", n>>)
write_varint(w, n) == Append(w, <<"varint", n>>)
write_tx_input(w, i) ==
    Append(w, <<"txin", i.prev_hash, i.prev_index, i.script_sig, i.sequence>>)
write_tx_input_check(w, i) ==
    Append(w, <<"txin_check", i.prev_hash, i.prev_index, i.script_type,
                i.address_n, i.sequence, i.amount>>)
write_tx_output(w, o) == Append(w, <<"txout", o.amount, o.script_pubkey>>)
\* sha256 as an injective function of the bytes written
get_tx_hash(w) == <<"sha256", w>>

\* ------------------------------------------- collaborators: keys, multisig
public_key(address_n) == <<"pub", address_n>>
ecdsa_hash_pubkey(pubkey) == <<"hash160", pubkey>>
multisig_fingerprint(ms) == <<"fp", ms.pubkeys, ms.m>>
multisig_has_pubkey(ms, pubkey) ==
    \E k \in 1..Len(ms.pubkeys) : ms.pubkeys[k] = pubkey
multisig_pubkey_index(ms, pubkey) ==
    CHOOSE k \in 1..Len(ms.pubkeys) : ms.pubkeys[k] = pubkey

NewMultisigFingerprint == [fingerprint |-> <<>>, mismatch |-> FALSE]
multisig_fp_add(fp, ms) ==
    IF fp.fingerprint = <<>>
    THEN [fp EXCEPT !.fingerprint = multisig_fingerprint(ms)]
    ELSE IF fp.fingerprint # multisig_fingerprint(ms)
         THEN [fp EXCEPT !.mismatch = TRUE]
         ELSE fp
multisig_fp_matches(fp, ms) ==
    fp.mismatch = FALSE /\ fp.fingerprint = multisig_fingerprint(ms)

\* ------------------------------------- collaborators: addresses and scripts
\* a full path of this model: wallet prefix, chain, address index
FullPathLen == 3
validate_full_path(address_n, script_type) == Len(address_n) = FullPathLen

CHANGE_OUTPUT_SCRIPT_TYPES ==
    {"PAYTOADDRESS", "PAYTOMULTISIG", "PAYTOWITNESS", "PAYTOP2SHWITNESS"}
CHANGE_OUTPUT_TO_INPUT_SCRIPT_TYPES(t) ==
    CASE t = "PAYTOADDRESS" -> "SPENDADDRESS"
      [] t = "PAYTOMULTISIG" -> "SPENDMULTISIG"
      [] t = "PAYTOWITNESS" -> "SPENDWITNESS"
      [] t = "PAYTOP2SHWITNESS" -> "SPENDP2SHWITNESS"

\* an address is its encoding, its version byte and what it commits to
NoAddress == [enc |-> "none", version |-> "none", payload |-> <<>>]
get_address(input_script_type, address_n, ms) ==
    LET what == IF ms # NoMultisig THEN <<"script", multisig_fingerprint(ms)>>
                ELSE <<"key", ecdsa_hash_pubkey(public_key(address_n))>>
    IN CASE input_script_type = "SPENDADDRESS" ->
              [enc |-> "base58", version |-> "p2pkh", payload |-> what]
         [] input_script_type = "SPENDMULTISIG" ->
              [enc |-> "base58", version |-> "p2sh", payload |-> what]
         [] input_script_type = "SPENDP2SHWITNESS" ->
              [enc |-> "base58", version |-> "p2sh", payload |-> <<"wit", what>>]
         [] input_script_type = "SPENDWITNESS" ->
              [enc |-> "bech32", version |-> "wit0", payload |-> what]

\* ------------------------------------------------------- pure functions
input_is_segwit(i) ==
    i.script_type = "SPENDWITNESS" \/ i.script_type = "SPENDP2SHWITNESS"

get_hash_type == SIGHASH_ALL

write_tx_header(w, tx, has_segwit) ==
    LET w1 == write_uint32(w, tx.version)
    IN IF has_segwit THEN write_varint(write_varint(w1, 0), 1) ELSE w1

write_sign_tx_header(w, tx, has_segwit) ==
    write_varint(write_tx_header(w, tx, has_segwit), tx.inputs_count)

\* the footer left out
write_sign_tx_footer_omitted(w, tx) == w

write_sign_tx_footer(w, tx) == write_uint32(w, tx.lock_time)

write_prev_tx_footer(w, tx) == write_uint32(w, tx.lock_time)

ecdsa_sign(address_n, digest) == <<"sig", address_n, digest>>

\* get_address_for_change raises DataError for a script type it cannot map
get_address_for_change_raises(o) == o.script_type \notin CHANGE_OUTPUT_SCRIPT_TYPES
get_address_for_change(o) ==
    get_address(CHANGE_OUTPUT_TO_INPUT_SCRIPT_TYPES(o.script_type),
                o.address_n, o.multisig)

\* the address output_derive_script works on once a change path is resolved
output_address(o) == IF o.address_n # <<>> THEN get_address_for_change(o) ELSE o.address

\* output_derive_script raises DataError ("Invalid script type", "Invalid
\* address", "Invalid address type")
output_derive_script_raises(o) ==
    /\ o.script_type # "PAYTOOPRETURN"
    /\ \/ o.address_n # <<>> /\ get_address_for_change_raises(o)
       \/ /\ ~(o.address_n # <<>> /\ get_address_for_change_raises(o))
          /\ output_address(o).enc # "bech32"
          /\ \/ output_address(o).enc # "base58"
             \/ output_address(o).version \notin {"p2pkh", "p2sh"}

output_derive_script(o) ==
    IF o.script_type = "PAYTOOPRETURN"
    THEN <<"op_return", o.op_return_data>>
    ELSE LET a == output_address(o)
         IN IF a.enc = "bech32" THEN <<"native_witness", a.payload>>
            ELSE IF a.version = "p2pkh" THEN <<"p2pkh", a.payload>>
            ELSE <<"p2sh", a.payload>>

\* output_is_change raises IndexError when address_n[-2] does not exist
output_is_change_raises(fp, wallet_path, o) ==
    /\ o.script_type \in CHANGE_OUTPUT_SCRIPT_TYPES
    /\ ~(o.multisig # NoMultisig /\ ~multisig_fp_matches(fp, o.multisig))
    /\ wallet_path # NoPath
    /\ wallet_path = DropLast(o.address_n, BIP32_WALLET_DEPTH)
    /\ Len(o.address_n) < 2

output_is_change(fp, wallet_path, o) ==
    IF o.script_type \notin CHANGE_OUTPUT_SCRIPT_TYPES THEN FALSE
    ELSE IF o.multisig # NoMultisig /\ ~multisig_fp_matches(fp, o.multisig) THEN FALSE
    ELSE /\ wallet_path # NoPath
         /\ wallet_path = DropLast(o.address_n, BIP32_WALLET_DEPTH)
         /\ o.address_n[Len(o.address_n) - 1] <= BIP32_CHANGE_CHAIN
         /\ o.address_n[Len(o.address_n)] <= BIP32_MAX_LAST_ELEMENT

\* input_extract_wallet_path without its first test: an unknown path is adopted anew
input_extract_wallet_path_recovers(wallet_path, txi) ==
    LET address_n == DropLast(txi.address_n, BIP32_WALLET_DEPTH)
    IN IF address_n = <<>> THEN NoPath
       ELSE IF wallet_path = <<>> \/ wallet_path = NoPath THEN address_n
       ELSE IF wallet_path # address_n THEN NoPath
       ELSE wallet_path

input_extract_wallet_path(wallet_path, txi) ==
    LET address_n == DropLast(txi.address_n, BIP32_WALLET_DEPTH)
    IN IF wallet_path = NoPath THEN NoPath
       ELSE IF address_n = <<>> THEN NoPath
       ELSE IF wallet_path = <<>> THEN address_n
       ELSE IF wallet_path # address_n THEN NoPath
       ELSE wallet_path

\* input_check_wallet_path that never raises
input_check_wallet_path_skipped(wallet_path, txi) == TRUE

\* TRUE iff input_check_wallet_path returns without raising ProcessError
input_check_wallet_path(wallet_path, txi) ==
    IF wallet_path = NoPath THEN TRUE
    ELSE wallet_path = DropLast(txi.address_n, BIP32_WALLET_DEPTH)

\* input_check_multisig_fingerprint that never raises
input_check_multisig_fingerprint_skipped(fp, txi) == TRUE

\* TRUE iff input_check_multisig_fingerprint returns without raising
input_check_multisig_fingerprint(fp, txi) ==
    IF fp.mismatch = FALSE
    THEN ~(txi.multisig = NoMultisig \/ ~multisig_fp_matches(fp, txi.multisig))
    ELSE TRUE

\* input_derive_script raises when a multisig signer is not in the descriptor
input_derive_script_raises(i, pubkey) ==
    \/ i.script_type = "SPENDMULTISIG" /\ ~multisig_has_pubkey(i.multisig, pubkey)
    \/ i.script_type \notin
         {"SPENDADDRESS", "SPENDP2SHWITNESS", "SPENDWITNESS", "SPENDMULTISIG"}

input_derive_script(i, pubkey, signature) ==
    CASE i.script_type = "SPENDADDRESS" ->
           <<"input_script_p2pkh_or_p2sh", pubkey, signature, get_hash_type>>
      [] i.script_type = "SPENDP2SHWITNESS" ->
           IF i.multisig # NoMultisig
           THEN <<"input_script_p2wsh_in_p2sh",
                  get_tx_hash(<<"multisig", i.multisig.pubkeys, i.multisig.m>>)>>
           ELSE <<"input_script_p2wpkh_in_p2sh", ecdsa_hash_pubkey(pubkey)>>
      [] i.script_type = "SPENDWITNESS" ->
           <<"input_script_native_p2wpkh_or_p2wsh">>
      [] i.script_type = "SPENDMULTISIG" ->
           <<"input_script_multisig", i.multisig.pubkeys, signature,
             multisig_pubkey_index(i.multisig, pubkey), get_hash_type>>

\* ------------------------------------------------ the coin and the weights
coin == [maxfee_kb |-> 1000, input_weight |-> 4, output_weight |-> 4]

\* fee > (coin.maxfee_kb / 1000) * (weight.get_total() / 4), without floats
fee_over_threshold(fee, w) == fee * 1000 * 4 > coin.maxfee_kb * w

\* ------------------------------------------------- the host's alphabet
\* the previous transaction the legacy inputs of the alphabet spend
PrevInput ==
    [prev_hash |-> <<"sha256", <<>>>>, prev_index |-> 0,
     script_sig |-> <<"prev_script_sig">>, sequence |-> 0]
PrevOutput(a) == [amount |-> a, script_pubkey |-> <<"p2pkh", <<"prev">>>>]
PrevMeta(n) == [version |-> 1, lock_time |-> 0, inputs_cnt |-> 1, outputs_cnt |-> n]
PrevTxOutputs == <<PrevOutput(3), PrevOutput(1)>>
PrevTxBytes ==
    write_prev_tx_footer(
        write_tx_output(
            write_tx_output(
                write_varint(
                    write_tx_input(
                        write_varint(write_tx_header(<<>>, PrevMeta(2), FALSE), 1),
                        PrevInput),
                    2),
                PrevTxOutputs[1]),
            PrevTxOutputs[2]),
        PrevMeta(2))
PrevHash == get_tx_hash(PrevTxBytes)

\* what the host may answer to the requests about a previous transaction
HostPrevMetas == {PrevMeta(1), PrevMeta(2)}
HostPrevInputs == {PrevInput}
HostPrevOutputs == {PrevOutput(1), PrevOutput(3)}

TxInput(address_n, script_type, ms, amount, prev_index) ==
    [address_n |-> address_n, script_type |-> script_type, multisig |-> ms,
     amount |-> amount, prev_hash |-> PrevHash, prev_index |-> prev_index,
     sequence |-> 0, script_sig |-> <<>>]

TxOutput(amount, address, address_n, script_type, ms) ==
    [amount |-> amount, address |-> address, address_n |-> address_n,
     script_type |-> script_type, multisig |-> ms, op_return_data |-> <<>>]

ExternalAddress == [enc |-> "base58", version |-> "p2pkh", payload |-> <<"ext">>]

\* paths: <<wallet, chain, index>>; the device's keys are at <<7, ...>>
Multisig_Ours == [pubkeys |-> <<public_key(<<7, 0, 0>>), public_key(<<9, 9, 9>>)>>, m |-> 2]
Multisig_Foreign == [pubkeys |-> <<public_key(<<9, 0, 0>>), public_key(<<9, 9, 9>>)>>, m |-> 2]

In_P2PKH == TxInput(<<7, 0, 0>>, "SPENDADDRESS", NoMultisig, 0, 0)
In_P2PKH_Second == TxInput(<<7, 0, 1>>, "SPENDADDRESS", NoMultisig, 0, 1)
In_P2PKH_Other == TxInput(<<8, 0, 0>>, "SPENDADDRESS", NoMultisig, 0, 0)
In_Witness(a) == TxInput(<<7, 0, 1>>, "SPENDWITNESS", NoMultisig, a, 0)
In_Witness_Other == TxInput(<<8, 0, 0>>, "SPENDWITNESS", NoMultisig, 1, 0)
In_Witness_Short == TxInput(<<0, 0>>, "SPENDP2SHWITNESS", NoMultisig, 1, 0)
In_Multisig(ms) == TxInput(<<7, 0, 0>>, "SPENDMULTISIG", ms, 0, 0)
In_WitnessMultisig(ms) == TxInput(<<7, 0, 0>>, "SPENDWITNESS", ms, 2, 0)

Out_External(a) == TxOutput(a, ExternalAddress, <<>>, "PAYTOADDRESS", NoMultisig)
Out_Change(a) == TxOutput(a, NoAddress, <<7, 1, 0>>, "PAYTOADDRESS", NoMultisig)
\* an output on a path of two elements: <<chain, index>>
Out_ShortChange(a) == TxOutput(a, NoAddress, <<1, 0>>, "PAYTOADDRESS", NoMultisig)
Out_BadAddress(a) ==
    TxOutput(a, [enc |-> "invalid", version |-> "none", payload |-> <<"ext">>], <<>>,
             "PAYTOADDRESS", NoMultisig)

\* One alphabet per run: the records the host answers with, the largest
\* inputs_count and the lock times of the transactions signed over it.
U_Basic ==
    [inputs |-> {In_P2PKH, In_Witness(2)},
     outputs |-> {Out_External(1), Out_Change(1)},
     max_inputs |-> MaxInputs, lock_times |-> {0, 1}]
U_Paths ==
    [inputs |-> {In_Witness(1), In_Witness_Other},
     outputs |-> {Out_Change(1)},
     max_inputs |-> MaxInputs + 1, lock_times |-> {0}]
U_ShortPath ==
    [inputs |-> {In_Witness(1), In_Witness_Short},
     outputs |-> {Out_Change(1)},
     max_inputs |-> MaxInputs, lock_times |-> {0}]
U_LegacyPaths ==
    [inputs |-> {In_P2PKH, In_P2PKH_Second, In_P2PKH_Other},
     outputs |-> {Out_External(1), Out_BadAddress(1)},
     max_inputs |-> MaxInputs, lock_times |-> {0}]
U_Multisig ==
    [inputs |-> {In_Multisig(Multisig_Ours), In_Multisig(Multisig_Foreign), In_P2PKH},
     outputs |-> {Out_External(1)},
     max_inputs |-> MaxInputs, lock_times |-> {0}]
U_WitnessMultisig ==
    [inputs |-> {In_WitnessMultisig(Multisig_Ours), In_WitnessMultisig(Multisig_Foreign),
                 In_Witness(1)},
     outputs |-> {Out_External(1)},
     max_inputs |-> MaxInputs, lock_times |-> {0}]
U_Change ==
    [inputs |-> {In_Witness(2)},
     outputs |-> {Out_Change(0), Out_Change(1), Out_External(1)},
     max_inputs |-> MaxInputs, lock_times |-> {0}]
U_ZeroAmount ==
    [inputs |-> {In_Witness(0), In_Witness(1)},
     outputs |-> {Out_External(1)},
     max_inputs |-> MaxInputs, lock_times |-> {0}]
U_ShortChange ==
    [inputs |-> {In_Witness(1)},
     outputs |-> {Out_ShortChange(0), Out_ShortChange(1), Out_External(1)},
     max_inputs |-> MaxInputs, lock_times |-> {0}]

Universes ==
    {U_Basic, U_Paths, U_ShortPath, U_LegacyPaths, U_Multisig, U_WitnessMultisig, U_Change,
     U_ZeroAmount, U_ShortChange}

\* ---------------------------------------------------------------- state
VARIABLES
    pc,             \* where the signer coroutine is suspended
    err,            \* the exception that ended the run: its kind, and the pc it was raised at
    tx,             \* self.tx: the sanitized SignTx
    wallet_path,    \* self.wallet_path
    multisig_fp,    \* self.multisig_fp
    bip143_in,      \* self.bip143_in
    segwit,         \* self.segwit
    total_in,       \* self.total_in
    total_out,      \* self.total_out
    change_out,     \* self.change_out
    h_first,        \* self.h_first: the bytes written to it
    hash143,        \* self.hash143: the three streams of the accumulator
    weight,         \* phase1: weight.get_total()
    tx_req,         \* self.tx_req.serialized: unset, an object of its own, or tx_ser
    tx_ser,         \* phase2: tx_ser
    i,              \* the index of the loop the coroutine is in
    txi,            \* the input being processed
    txo,            \* the output being processed
    prevtx,         \* locals of get_prevtx_output_value
    signing,        \* locals of phase2_sign_nonsegwit_input
    universe,       \* the host's alphabet
    p1_inputs,      \* the inputs the host streamed in phase 1
    p1_outputs,     \* the outputs the host streamed in phase 1
    tampers,        \* phase-2 responses that differed from phase 1 so far
    restream,       \* the records the host answered in the current legacy re-stream
    sent,           \* every tx_req.serialized the host has received, in order
    signatures,     \* every call of ecdsa_sign, in order
    prompts,        \* every confirmation prompt answered, in order
    unconfirmed,    \* indices of the outputs accepted as change without a prompt
    finished        \* how many times request_tx_finish was sent

selfVars == <<tx, wallet_path, multisig_fp, bip143_in, segwit, total_in, total_out,
              change_out, h_first, hash143>>
p1Vars == <<wallet_path, multisig_fp, segwit, total_in, total_out, change_out,
            h_first, hash143>>
hostVars == <<universe, p1_inputs, p1_outputs, tampers, restream>>
vars == <<pc, err, tx, wallet_path, multisig_fp, bip143_in, segwit, total_in,
          total_out, change_out, h_first, hash143, weight, tx_req, tx_ser, i,
          txi, txo, prevtx, signing, universe, p1_inputs, p1_outputs, tampers,
          restream, sent, signatures, prompts, unconfirmed, finished>>

NoRestream == [inputs |-> <<>>, outputs |-> <<>>]
NoError == [kind |-> "", at |-> ""]
NoSerialized == [signature_index |-> NoIndex, signature |-> NoSignature,
                 serialized_tx |-> <<>>]
NoPrevTx == [tx |-> PrevMeta(0), txh |-> <<>>, amount_out |-> 0, k |-> 0]
NoSigning == [h_sign |-> <<>>, h_second |-> <<>>, txi_sign |-> In_P2PKH, k |-> 0]

\* signer up to the first await of phase1: initialize
Init ==
    /\ universe \in Universes
    /\ \E ni \in 0..universe.max_inputs, no \in 1..MaxOutputs, lt \in universe.lock_times :
         tx = [version |-> 1, inputs_count |-> ni, outputs_count |-> no, lock_time |-> lt]
    /\ pc = IF tx.inputs_count > 0 THEN "p1_input" ELSE "p1_output"
    /\ err = NoError
    /\ multisig_fp = NewMultisigFingerprint
    /\ wallet_path = <<>>
    /\ bip143_in = 0
    /\ segwit = <<>>
    /\ total_in = 0
    /\ total_out = 0
    /\ change_out = 0
    /\ tx_req = [serialized |-> "None", own |-> NoSerialized]
    /\ tx_ser = NoSerialized
    /\ h_first = <<>>
    /\ hash143 = [prevouts |-> <<>>, sequences |-> <<>>, outputs |-> <<>>]
    /\ weight = 0
    /\ i = 0
    /\ txi = In_P2PKH
    /\ txo = Out_External(0)
    /\ prevtx = NoPrevTx
    /\ signing = NoSigning
    /\ p1_inputs = <<>>
    /\ p1_outputs = <<>>
    /\ tampers = 0
    /\ restream = NoRestream
    /\ sent = <<>>
    /\ signatures = <<>>
    /\ prompts = <<>>
    /\ unconfirmed = <<>>
    /\ finished = 0

\* raise SigningError(kind, ...): the run is over
Abort(kind) == pc' = "aborted" /\ err' = [kind |-> kind, at |-> pc]

\* ---------------------------------------------------------------- phase 1
\* the head of the loop over the inputs, after input i is done
phase1_next_input ==
    /\ i' = IF i + 1 < tx.inputs_count THEN i + 1 ELSE 0
    /\ pc' = IF i + 1 < tx.inputs_count THEN "p1_input" ELSE "p1_output"
    /\ UNCHANGED err

phase1_process_segwit_input(r) ==
    IF r.amount = 0
    THEN Abort("DataError") /\ UNCHANGED <<segwit, bip143_in, total_in, i>>
    ELSE /\ segwit' = (i :> TRUE) @@ segwit
         /\ bip143_in' = bip143_in + r.amount
         /\ total_in' = total_in + r.amount
         /\ phase1_next_input

\* up to the first await of get_prevtx_output_value
phase1_process_nonsegwit_input(r) ==
    /\ segwit' = (i :> FALSE) @@ segwit
    /\ pc' = "prev_meta"
    /\ UNCHANGED <<err, bip143_in, total_in, i>>

\* phase1_process_input from the multisig fingerprint on
phase1_classify_input(r) ==
    /\ multisig_fp' = IF r.multisig # NoMultisig
                      THEN multisig_fp_add(multisig_fp, r.multisig)
                      ELSE [multisig_fp EXCEPT !.mismatch = TRUE]
    /\ IF r.script_type \in {"SPENDWITNESS", "SPENDP2SHWITNESS"}
       THEN phase1_process_segwit_input(r)
       ELSE IF r.script_type \in {"SPENDADDRESS", "SPENDMULTISIG"}
       THEN phase1_process_nonsegwit_input(r)
       ELSE Abort("DataError") /\ UNCHANGED <<segwit, bip143_in, total_in, i>>

\* request_tx_input answered in phase 1; phase1_process_input up to its await
phase1_request_input ==
    /\ pc = "p1_input"
    /\ \E r \in universe.inputs :
         /\ txi' = r
         /\ p1_inputs' = Append(p1_inputs, r)
         /\ weight' = weight + coin.input_weight
         /\ wallet_path' = input_extract_wallet_path(wallet_path, r)
         /\ h_first' = write_tx_input_check(h_first, r)
         /\ hash143' = [hash143 EXCEPT
                          !.prevouts = Append(@, <<r.prev_hash, r.prev_index>>),
                          !.sequences = Append(@, r.sequence)]
         /\ IF ~validate_full_path(r.address_n, r.script_type)
            THEN /\ pc' = "p1_foreign"
                 /\ UNCHANGED <<err, multisig_fp, segwit, bip143_in, total_in, i>>
            ELSE phase1_classify_input(r)
    /\ prevtx' = NoPrevTx
    /\ UNCHANGED <<tx, total_out, change_out, tx_req, tx_ser, txo, signing, universe,
                   p1_outputs, tampers, restream, sent, signatures, prompts,
                   unconfirmed, finished>>

\* confirm_foreign_address answered: its result is not looked at
phase1_confirm_foreign_address ==
    /\ pc = "p1_foreign"
    /\ \E ok \in BOOLEAN : prompts' = Append(prompts, <<"foreign_address", i, ok>>)
    /\ phase1_classify_input(txi)
    /\ UNCHANGED <<tx, wallet_path, total_out, change_out, h_first, hash143, weight,
                   tx_req, tx_ser, txi, txo, prevtx, signing, hostVars, sent,
                   signatures, unconfirmed, finished>>

\* ------------------------------------------------ get_prevtx_output_value
\* request_tx_meta answered
prevtx_request_meta ==
    /\ pc = "prev_meta"
    /\ \E m \in HostPrevMetas :
         IF m.outputs_cnt <= txi.prev_index
         THEN Abort("ProcessError") /\ prevtx' = [prevtx EXCEPT !.tx = m]
         ELSE /\ prevtx' =
                   [tx |-> m, amount_out |-> 0, k |-> 0,
                    txh |-> LET w == write_varint(write_tx_header(<<>>, m, FALSE),
                                                  m.inputs_cnt)
                            IN IF m.inputs_cnt = 0 THEN write_varint(w, m.outputs_cnt)
                               ELSE w]
              /\ pc' = IF m.inputs_cnt > 0 THEN "prev_input" ELSE "prev_output"
              /\ UNCHANGED err
    /\ UNCHANGED <<selfVars, weight, tx_req, tx_ser, i, txi, txo, signing, hostVars,
                   sent, signatures, prompts, unconfirmed, finished>>

\* request_tx_input(prev_hash) answered
prevtx_request_input ==
    /\ pc = "prev_input"
    /\ \E r \in HostPrevInputs :
         LET w == write_tx_input(prevtx.txh, r)
             last == prevtx.k + 1 = prevtx.tx.inputs_cnt
         IN /\ prevtx' = [prevtx EXCEPT
                            !.txh = IF last THEN write_varint(w, prevtx.tx.outputs_cnt)
                                    ELSE w,
                            !.k = IF last THEN 0 ELSE @ + 1]
            /\ pc' = IF last THEN "prev_output" ELSE "prev_input"
    /\ UNCHANGED <<err, selfVars, weight, tx_req, tx_ser, i, txi, txo, signing, hostVars,
                   sent, signatures, prompts, unconfirmed, finished>>

\* get_prevtx_output_value without the comparison with prev_hash
prevtx_hash_matches_skipped(txh, prev_hash) == TRUE

\* the end of get_prevtx_output_value: TRUE iff the streamed bytes hash to prev_hash
prevtx_hash_matches(txh, prev_hash) == get_tx_hash(txh) = prev_hash

\* request_tx_output(prev_hash) answered; after the last one, the footer, the
\* comparison with prev_hash and the addition to total_in
prevtx_request_output ==
    /\ pc = "prev_output"
    /\ \E o \in HostPrevOutputs :
         LET w == write_tx_output(prevtx.txh, o)
             amount_out == IF prevtx.k = txi.prev_index THEN o.amount
                           ELSE prevtx.amount_out
             last == prevtx.k + 1 = prevtx.tx.outputs_cnt
         IN IF ~last
            THEN /\ prevtx' = [prevtx EXCEPT !.txh = w, !.amount_out = amount_out,
                                             !.k = @ + 1]
                 /\ UNCHANGED <<pc, err, total_in, i>>
            ELSE /\ prevtx' = [prevtx EXCEPT
                                 !.txh = write_prev_tx_footer(w, prevtx.tx),
                                 !.amount_out = amount_out]
                 /\ IF ~prevtx_hash_matches(write_prev_tx_footer(w, prevtx.tx),
                                            txi.prev_hash)
                    THEN Abort("ProcessError") /\ UNCHANGED <<total_in, i>>
                    ELSE total_in' = total_in + amount_out /\ phase1_next_input
    /\ UNCHANGED <<tx, wallet_path, multisig_fp, bip143_in, segwit, total_out,
                   change_out, h_first, hash143, weight, tx_req, tx_ser, txi, txo,
                   signing, hostVars, sent, signatures, prompts, unconfirmed, finished>>

\* ----------------------------------------------------- phase 1: outputs
\* phase1_confirm_output once the output is accepted, and the head of the loop
phase1_write_output(o) ==
    LET txo_bin == [amount |-> o.amount, script_pubkey |-> output_derive_script(o)]
    IN /\ h_first' = write_tx_output(h_first, txo_bin)
       /\ hash143' = [hash143 EXCEPT !.outputs = Append(@, txo_bin)]
       /\ total_out' = total_out + txo_bin.amount
       /\ i' = IF i + 1 < tx.outputs_count THEN i + 1 ELSE 0
       /\ pc' = IF i + 1 < tx.outputs_count THEN "p1_output" ELSE "p1_fee"
       /\ UNCHANGED err

\* the test of phase1_confirm_output: the output needs no confirmation
phase1_output_is_unconfirmed_change(o) ==
    change_out = 0 /\ output_is_change(multisig_fp, wallet_path, o)

\* phase1_confirm_output up to its await
phase1_confirm_output(o) ==
    IF change_out = 0 /\ output_is_change_raises(multisig_fp, wallet_path, o)
    THEN /\ Abort("IndexError")
         /\ UNCHANGED <<change_out, unconfirmed, h_first, hash143, total_out, i>>
    ELSE IF phase1_output_is_unconfirmed_change(o)
    THEN /\ change_out' = o.amount
         /\ unconfirmed' = Append(unconfirmed, i)
         /\ phase1_write_output(o)
    ELSE /\ pc' = "p1_confirm_output"
         /\ UNCHANGED <<err, change_out, unconfirmed, h_first, hash143, total_out, i>>

\* request_tx_output answered in phase 1
phase1_request_output ==
    /\ pc = "p1_output"
    /\ \E o \in universe.outputs :
         /\ txo' = o
         /\ p1_outputs' = Append(p1_outputs, o)
         /\ IF output_derive_script_raises(o)
            THEN /\ Abort("DataError")
                 /\ UNCHANGED <<weight, change_out, unconfirmed, h_first, hash143,
                                total_out, i>>
            ELSE /\ weight' = weight + coin.output_weight
                 /\ phase1_confirm_output(o)
    /\ UNCHANGED <<tx, wallet_path, multisig_fp, bip143_in, segwit, total_in, tx_req,
                   tx_ser, txi, prevtx, signing, universe, p1_inputs, tampers,
                   restream, sent, signatures, prompts, finished>>

\* confirm_output answered
phase1_output_confirmed ==
    /\ pc = "p1_confirm_output"
    /\ \E ok \in BOOLEAN :
         /\ prompts' = Append(prompts, <<"output", i, ok>>)
         /\ IF ~ok
            THEN Abort("ActionCancelled") /\ UNCHANGED <<h_first, hash143, total_out, i>>
            ELSE phase1_write_output(txo)
    /\ UNCHANGED <<tx, wallet_path, multisig_fp, bip143_in, segwit, total_in,
                   change_out, weight, tx_req, tx_ser, txi, txo, prevtx, signing,
                   hostVars, sent, signatures, unconfirmed, finished>>

\* ------------------------------------------- phase 1: fee and confirmations
\* phase1 without the lock-time prompt
phase1_after_fee_skips_locktime == "p1_confirm_total"

\* the prompt phase1 awaits next, from the lock-time test on
phase1_after_fee == IF tx.lock_time > 0 THEN "p1_confirm_locktime" ELSE "p1_confirm_total"

\* the fee test off by one
phase1_fee_is_negative_off_by_one(fee) == fee < -1

\* on_negative_fee is called
phase1_fee_is_negative(fee) == fee < 0

\* phase1 after its loops, up to the next await
phase1_check_fee ==
    /\ pc = "p1_fee"
    /\ LET fee == total_in - total_out
       IN IF phase1_fee_is_negative(fee)
          THEN Abort("NotEnoughFunds")
          ELSE /\ pc' = IF fee_over_threshold(fee, weight) THEN "p1_confirm_fee"
                        ELSE phase1_after_fee
               /\ UNCHANGED err
    /\ UNCHANGED <<selfVars, weight, tx_req, tx_ser, i, txi, txo, prevtx, signing,
                   hostVars, sent, signatures, prompts, unconfirmed, finished>>

\* confirm_feeoverthreshold answered
phase1_fee_confirmed ==
    /\ pc = "p1_confirm_fee"
    /\ \E ok \in BOOLEAN :
         /\ prompts' = Append(prompts, <<"feeoverthreshold", 0, ok>>)
         /\ IF ~ok THEN Abort("ActionCancelled")
            ELSE pc' = phase1_after_fee /\ UNCHANGED err
    /\ UNCHANGED <<selfVars, weight, tx_req, tx_ser, i, txi, txo, prevtx, signing,
                   hostVars, sent, signatures, unconfirmed, finished>>

\* confirm_nondefault_locktime answered
phase1_locktime_confirmed ==
    /\ pc = "p1_confirm_locktime"
    /\ \E ok \in BOOLEAN :
         /\ prompts' = Append(prompts, <<"nondefault_locktime", 0, ok>>)
         /\ IF ~ok THEN Abort("ActionCancelled")
            ELSE pc' = "p1_confirm_total" /\ UNCHANGED err
    /\ UNCHANGED <<selfVars, weight, tx_req, tx_ser, i, txi, txo, prevtx, signing,
                   hostVars, sent, signatures, unconfirmed, finished>>

\* ---------------------------------------------------------------- phase 2
\* what the host receives with a request: tx_req.serialized, when set
Pending == IF tx_req.serialized = "tx_ser" THEN tx_ser ELSE tx_req.own
Delivered == IF tx_req.serialized = "None" THEN sent ELSE Append(sent, Pending)
\* tx_req.serialized once the request helper has returned
Cleared == [tx_req EXCEPT !.serialized = "None"]
\* tx_req.serialized = TxRequestSerializedType(...)
Own(ser) == [serialized |-> "own", own |-> ser]
\* tx_req.serialized = tx_ser
Alias == [tx_req EXCEPT !.serialized = "tx_ser"]

\* the answers the host may give when input or output k is requested again
HostInputs(k) ==
    {p1_inputs[k + 1]} \cup (IF tampers < MaxTamper THEN universe.inputs ELSE {})
HostOutputs(k) ==
    {p1_outputs[k + 1]} \cup (IF tampers < MaxTamper THEN universe.outputs ELSE {})
Tampered(r, original) == IF r = original THEN tampers ELSE tampers + 1

\* the stub written whether or not an input is segwit
any_segwit_always == TRUE

\* any_segwit = True in self.segwit.values()
any_segwit == \E k \in DOMAIN segwit : segwit[k]

\* the first loop of phase2 handing index k to phase1_process_input
phase2_next_input_runs_phase1(k) ==
    IF k < tx.inputs_count
    THEN i' = k /\ pc' = "p1_input" /\ signing' = NoSigning
    ELSE i' = 0 /\ pc' = "p2_output" /\ signing' = NoSigning

\* the head of the first loop of phase2 for index k, up to the first await of
\* phase2_serialize_segwit_input or phase2_sign_nonsegwit_input
phase2_next_input(k) ==
    IF k < tx.inputs_count
    THEN /\ i' = k
         /\ IF segwit[k]
            THEN pc' = "p2_segwit_input" /\ signing' = NoSigning
            ELSE /\ pc' = "p2_legacy_input"
                 /\ signing' = [NoSigning EXCEPT
                                  !.h_sign = write_sign_tx_header(<<>>, tx, FALSE)]
    ELSE /\ i' = 0
         /\ pc' = "p2_output"
         /\ signing' = NoSigning

\* confirm_total answered; phase2 up to its first await
phase1_total_confirmed ==
    /\ pc = "p1_confirm_total"
    /\ \E ok \in BOOLEAN :
         /\ prompts' = Append(prompts, <<"total", 0, ok>>)
         /\ IF ~ok
            THEN Abort("ActionCancelled") /\ UNCHANGED <<tx_req, i, signing>>
            ELSE /\ tx_req' = Cleared
                 /\ phase2_next_input(0)
                 /\ UNCHANGED err
    /\ UNCHANGED <<selfVars, weight, tx_ser, txi, txo, prevtx, hostVars, sent,
                   signatures, unconfirmed, finished>>

\* phase2_serialize_segwit_input without the input_is_segwit test
phase2_serialize_segwit_input_raises_no_class_check(r) ==
    ~input_check_wallet_path(wallet_path, r)

\* phase2_serialize_segwit_input raises "Transaction has changed during signing"
phase2_serialize_segwit_input_raises(r) ==
    ~input_is_segwit(r) \/ ~input_check_wallet_path(wallet_path, r)

\* request_tx_input answered in phase2_serialize_segwit_input
phase2_serialize_segwit_input ==
    /\ pc = "p2_segwit_input"
    /\ \E r \in HostInputs(i) :
         /\ tampers' = Tampered(r, p1_inputs[i + 1])
         /\ sent' = Delivered
         /\ txi' = r
         /\ IF phase2_serialize_segwit_input_raises(r)
            THEN /\ Abort("ProcessError")
                 /\ tx_req' = Cleared
                 /\ UNCHANGED <<i, signing>>
            ELSE LET key_sign_pub == public_key(r.address_n)
                     txi_sign == [r EXCEPT !.script_sig =
                                    input_derive_script(r, key_sign_pub, NoSignature)]
                     w_txi == write_tx_input(
                                  IF i = 0 THEN write_sign_tx_header(<<>>, tx, TRUE)
                                  ELSE <<>>,
                                  txi_sign)
                 IN /\ tx_req' = Own([NoSerialized EXCEPT !.serialized_tx = w_txi])
                    /\ phase2_next_input(i + 1)
                    /\ UNCHANGED err
    /\ UNCHANGED <<selfVars, weight, tx_ser, txo, prevtx, universe, p1_inputs,
                   p1_outputs, restream, signatures, prompts, unconfirmed, finished>>

\* the input being signed hashed with an empty script_sig, like the others
legacy_placeholder_script_empty(r) == <<>>

\* the script_sig substituted for the input being signed
legacy_placeholder_script(r) ==
    IF r.script_type = "SPENDMULTISIG"
    THEN <<"output_script_multisig", r.multisig.pubkeys, r.multisig.m>>
    ELSE <<"output_script_p2pkh", ecdsa_hash_pubkey(public_key(r.address_n))>>

\* the loop over the inputs of phase2_sign_nonsegwit_input raises ProcessError
\* on input k of the re-stream ("Transaction has changed during signing",
\* "Unknown transaction type")
phase2_sign_nonsegwit_input_raises(r, k) ==
    \/ ~input_check_wallet_path(wallet_path, r)
    \/ /\ k = i
       /\ \/ ~input_check_multisig_fingerprint(multisig_fp, r)
          \/ r.script_type \notin {"SPENDMULTISIG", "SPENDADDRESS"}

\* request_tx_input answered in the re-stream of phase2_sign_nonsegwit_input
phase2_sign_nonsegwit_input_request_input ==
    /\ pc = "p2_legacy_input"
    /\ \E r \in HostInputs(signing.k) :
         /\ tampers' = Tampered(r, p1_inputs[signing.k + 1])
         /\ sent' = Delivered
         /\ tx_req' = Cleared
         /\ txi' = r
         /\ restream' = IF signing.k = 0 THEN [inputs |-> <<r>>, outputs |-> <<>>]
                        ELSE [restream EXCEPT !.inputs = Append(@, r)]
         /\ IF phase2_sign_nonsegwit_input_raises(r, signing.k)
            THEN Abort("ProcessError") /\ UNCHANGED signing
            ELSE LET copy == [r EXCEPT !.script_sig =
                                IF signing.k = i THEN legacy_placeholder_script(r)
                                ELSE <<>>]
                     hs == write_tx_input(signing.h_sign, copy)
                     last == signing.k + 1 = tx.inputs_count
                 IN /\ signing' =
                         [h_sign |-> IF last THEN write_varint(hs, tx.outputs_count)
                                     ELSE hs,
                          h_second |-> write_tx_input_check(signing.h_second, r),
                          txi_sign |-> IF signing.k = i THEN copy ELSE signing.txi_sign,
                          k |-> IF last THEN 0 ELSE signing.k + 1]
                    /\ pc' = IF last THEN "p2_legacy_output" ELSE "p2_legacy_input"
                    /\ UNCHANGED err
    /\ UNCHANGED <<selfVars, weight, tx_ser, i, txo, prevtx, universe, p1_inputs,
                   p1_outputs, signatures, prompts, unconfirmed, finished>>

\* request_tx_output answered in the re-stream of phase2_sign_nonsegwit_input
phase2_sign_nonsegwit_input_request_output ==
    /\ pc = "p2_legacy_output"
    /\ \E o \in HostOutputs(signing.k) :
         /\ tampers' = Tampered(o, p1_outputs[signing.k + 1])
         /\ sent' = Delivered
         /\ tx_req' = Cleared
         /\ txo' = o
         /\ restream' = [restream EXCEPT !.outputs = Append(@, o)]
         /\ IF output_derive_script_raises(o)
            THEN Abort("DataError") /\ UNCHANGED signing
            ELSE LET txo_bin == [amount |-> o.amount,
                                 script_pubkey |-> output_derive_script(o)]
                     hs == write_tx_output(signing.h_sign, txo_bin)
                     last == signing.k + 1 = tx.outputs_count
                 IN /\ signing' =
                         [signing EXCEPT
                            !.h_second = write_tx_output(@, txo_bin),
                            !.h_sign = IF last
                                       THEN write_uint32(write_uint32(hs, tx.lock_time),
                                                         get_hash_type)
                                       ELSE hs,
                            !.k = IF last THEN 0 ELSE @ + 1]
                    /\ pc' = IF last THEN "p2_legacy_sign" ELSE "p2_legacy_output"
                    /\ UNCHANGED err
    /\ UNCHANGED <<selfVars, weight, tx_ser, i, txi, prevtx, universe, p1_inputs,
                   p1_outputs, signatures, prompts, unconfirmed, finished>>

\* phase2_sign_nonsegwit_input without the comparison of the control digests
control_digests_match_skipped(first, second) == TRUE

\* "check the control digests": TRUE iff h_first and h_second agree
control_digests_match(first, second) == get_tx_hash(first) = get_tx_hash(second)

\* "if multisig, check if signing with a key that is included in multisig":
\* TRUE iff multisig_pubkey_index raises
phase2_legacy_key_not_in_multisig(txi_sign) ==
    /\ txi_sign.multisig # NoMultisig
    /\ ~multisig_has_pubkey(txi_sign.multisig, public_key(txi_sign.address_n))

\* TxRequestSerializedType(i_sign, signature, w_txi_sign)
signed_input_response(i_sign, signature, w_txi_sign) ==
    [signature_index |-> i_sign, signature |-> signature, serialized_tx |-> w_txi_sign]

\* phase2_sign_nonsegwit_input after the re-stream: the control digests, the
\* signature, the serialised input
phase2_sign_nonsegwit_input_sign ==
    /\ pc = "p2_legacy_sign"
    /\ IF ~control_digests_match(h_first, signing.h_second)
       THEN Abort("ProcessError") /\ UNCHANGED <<tx_req, i, signing, signatures>>
       ELSE IF phase2_legacy_key_not_in_multisig(signing.txi_sign)
       THEN Abort("ProcessError") /\ UNCHANGED <<tx_req, i, signing, signatures>>
       ELSE LET key_sign_pub == public_key(signing.txi_sign.address_n)
                signature == ecdsa_sign(signing.txi_sign.address_n,
                                        get_tx_hash(signing.h_sign))
                txi_sign == [signing.txi_sign EXCEPT !.script_sig =
                               input_derive_script(signing.txi_sign, key_sign_pub,
                                                   signature)]
                w_txi_sign == write_tx_input(
                                  IF i = 0
                                  THEN write_sign_tx_header(<<>>, tx, any_segwit)
                                  ELSE <<>>,
                                  txi_sign)
            IN /\ signatures' = Append(signatures,
                                       [index |-> i, segwit |-> FALSE, amount |-> 0,
                                        multisig |-> signing.txi_sign.multisig,
                                        signature |-> signature])
               /\ IF input_derive_script_raises(signing.txi_sign, key_sign_pub)
                  THEN Abort("ProcessError") /\ UNCHANGED <<tx_req, i, signing>>
                  ELSE /\ tx_req' = Own(signed_input_response(i, signature, w_txi_sign))
                       /\ phase2_next_input(i + 1)
                       /\ UNCHANGED err
    /\ UNCHANGED <<selfVars, weight, tx_ser, txi, txo, prevtx, hostVars, sent, prompts,
                   unconfirmed, finished>>

\* request_tx_output answered in phase2_serialize_output; the second loop of phase2
phase2_serialize_output ==
    /\ pc = "p2_output"
    /\ \E o \in HostOutputs(i) :
         /\ tampers' = Tampered(o, p1_outputs[i + 1])
         /\ sent' = Delivered
         /\ txo' = o
         /\ IF output_derive_script_raises(o)
            THEN /\ Abort("DataError")
                 /\ tx_req' = Cleared
                 /\ UNCHANGED <<tx_ser, i>>
            ELSE LET txo_bin == [amount |-> o.amount,
                                 script_pubkey |-> output_derive_script(o)]
                     w_txo_bin == write_tx_output(
                                      IF i = 0 THEN write_varint(<<>>, tx.outputs_count)
                                      ELSE <<>>,
                                      txo_bin)
                 IN /\ tx_ser' = [tx_ser EXCEPT !.serialized_tx = w_txo_bin]
                    /\ tx_req' = Alias
                    /\ i' = IF i + 1 < tx.outputs_count THEN i + 1 ELSE 0
                    /\ pc' = IF i + 1 < tx.outputs_count THEN "p2_output"
                             ELSE "p2_witness_loop"
                    /\ UNCHANGED err
    /\ UNCHANGED <<selfVars, weight, txi, prevtx, signing, universe, p1_inputs,
                   p1_outputs, restream, signatures, prompts, unconfirmed, finished>>

\* one pass through the body of the third loop of phase2 that does not await,
\* or, after the loop, write_sign_tx_footer
phase2_witness_loop ==
    /\ pc = "p2_witness_loop"
    /\ IF i < tx.inputs_count
       THEN IF segwit[i]
            THEN pc' = "p2_witness" /\ UNCHANGED <<tx_ser, tx_req, i>>
            ELSE /\ tx_ser' = IF any_segwit
                              THEN [signature_index |-> NoIndex,
                                    signature |-> NoSignature,
                                    serialized_tx |->
                                        Append(tx_ser.serialized_tx, <<"byte", 0>>)]
                              ELSE tx_ser
                 /\ tx_req' = Alias
                 /\ i' = i + 1
                 /\ UNCHANGED pc
       ELSE /\ tx_ser' = [tx_ser EXCEPT
                            !.serialized_tx = write_sign_tx_footer(@, tx)]
            /\ pc' = "p2_finish"
            /\ UNCHANGED <<tx_req, i>>
    /\ UNCHANGED <<err, selfVars, weight, txi, txo, prevtx, signing, hostVars, sent,
                   signatures, prompts, unconfirmed, finished>>

\* the accumulator's digest for one input
preimage_hash(h143, t, r, pubkeyhash, hash_type) ==
    get_tx_hash(<<"bip143", t.version, h143.prevouts, h143.sequences, r.prev_hash,
                  r.prev_index, r.multisig, pubkeyhash, r.amount, r.sequence,
                  h143.outputs, t.lock_time, hash_type>>)

\* phase2_sign_segwit_input without the test of the amount against bip143_in
phase2_sign_segwit_input_raises_no_amount_check(r) ==
    \/ ~input_check_wallet_path(wallet_path, r)
    \/ ~input_check_multisig_fingerprint(multisig_fp, r)
    \/ ~input_is_segwit(r)

\* phase2_sign_segwit_input raises "Transaction has changed during signing"
phase2_sign_segwit_input_raises(r) ==
    \/ ~input_check_wallet_path(wallet_path, r)
    \/ ~input_check_multisig_fingerprint(multisig_fp, r)
    \/ ~input_is_segwit(r)
    \/ r.amount > bip143_in

\* request_tx_input answered in phase2_sign_segwit_input; the rest of the loop body
phase2_sign_segwit_input ==
    /\ pc = "p2_witness"
    /\ \E r \in HostInputs(i) :
         /\ tampers' = Tampered(r, p1_inputs[i + 1])
         /\ sent' = Delivered
         /\ txi' = r
         /\ IF phase2_sign_segwit_input_raises(r)
            THEN /\ Abort("ProcessError")
                 /\ tx_req' = Cleared
                 /\ UNCHANGED <<bip143_in, signatures, tx_ser, i>>
            ELSE LET key_sign_pub == public_key(r.address_n)
                     hash143_hash == preimage_hash(hash143, tx, r,
                                                   ecdsa_hash_pubkey(key_sign_pub),
                                                   get_hash_type)
                     signature == ecdsa_sign(r.address_n, hash143_hash)
                 IN /\ bip143_in' = bip143_in - r.amount
                    /\ signatures' = Append(signatures,
                                            [index |-> i, segwit |-> TRUE,
                                             amount |-> r.amount,
                                             multisig |-> r.multisig,
                                             signature |-> signature])
                    /\ IF r.multisig # NoMultisig
                          /\ ~multisig_has_pubkey(r.multisig, key_sign_pub)
                       THEN /\ Abort("ProcessError")
                            /\ tx_req' = Cleared
                            /\ UNCHANGED <<tx_ser, i>>
                       ELSE /\ tx_ser' =
                                 [signature_index |-> i, signature |-> signature,
                                  serialized_tx |->
                                      IF r.multisig # NoMultisig
                                      THEN << <<"witness_p2wsh", r.multisig.pubkeys,
                                                signature,
                                                multisig_pubkey_index(r.multisig,
                                                                      key_sign_pub),
                                                get_hash_type>> >>
                                      ELSE << <<"witness_p2wpkh", signature,
                                                key_sign_pub, get_hash_type>> >>]
                            /\ tx_req' = Alias
                            /\ i' = i + 1
                            /\ pc' = "p2_witness_loop"
                            /\ UNCHANGED err
    /\ UNCHANGED <<tx, wallet_path, multisig_fp, segwit, total_in, total_out,
                   change_out, h_first, hash143, weight, txo, prevtx, signing, universe,
                   p1_inputs, p1_outputs, restream, prompts, unconfirmed, finished>>

\* request_tx_finish sent: the run is complete
phase2_request_tx_finish ==
    /\ pc = "p2_finish"
    /\ sent' = Delivered
    /\ tx_req' = Cleared
    /\ finished' = finished + 1
    /\ pc' = "done"
    /\ UNCHANGED <<err, selfVars, weight, tx_ser, i, txi, txo, prevtx, signing, hostVars,
                   signatures, prompts, unconfirmed>>

\* ------------------------------------------------------------ the signer
Next ==
    \/ phase1_request_input
    \/ phase1_confirm_foreign_address
    \/ prevtx_request_meta
    \/ prevtx_request_input
    \/ prevtx_request_output
    \/ phase1_request_output
    \/ phase1_output_confirmed
    \/ phase1_check_fee
    \/ phase1_fee_confirmed
    \/ phase1_locktime_confirmed
    \/ phase1_total_confirmed
    \/ phase2_serialize_segwit_input
    \/ phase2_sign_nonsegwit_input_request_input
    \/ phase2_sign_nonsegwit_input_request_output
    \/ phase2_sign_nonsegwit_input_sign
    \/ phase2_serialize_output
    \/ phase2_witness_loop
    \/ phase2_sign_segwit_input
    \/ phase2_request_tx_finish

Spec == Init /\ [][Next]_vars

\* ---------------------------------------------------------------- claims
\* the class phase 1 records for a script family
IsSegwitClass(r) == r.script_type \in {"SPENDWITNESS", "SPENDP2SHWITNESS"}
\* the fields of a record the control digests cover
HashedInput(r) ==
    <<r.prev_hash, r.prev_index, r.script_type, r.address_n, r.sequence, r.amount>>
HashedOutput(o) == <<o.amount, output_derive_script(o)>>
\* the current legacy re-stream differs from the phase-1 stream in a hashed field
RestreamDiffers ==
    \/ \E k \in 1..Len(restream.inputs) :
         HashedInput(restream.inputs[k]) # HashedInput(p1_inputs[k])
    \/ \E k \in 1..Len(restream.outputs) :
         HashedOutput(restream.outputs[k]) # HashedOutput(p1_outputs[k])
RestreamOutputDiffers ==
    \E k \in 1..Len(restream.outputs) :
       HashedOutput(restream.outputs[k]) # HashedOutput(p1_outputs[k])

\* the amount an input really carries: declared (segwit) or that of the output
\* prev_index of the transaction prev_hash names (legacy)
InputAmount(r) ==
    IF IsSegwitClass(r) THEN r.amount ELSE PrevTxOutputs[r.prev_index + 1].amount
RECURSIVE SumInputAmounts(_)
SumInputAmounts(s) ==
    IF s = <<>> THEN 0 ELSE InputAmount(Head(s)) + SumInputAmounts(Tail(s))
RECURSIVE SumOutputAmounts(_)
SumOutputAmounts(s) ==
    IF s = <<>> THEN 0 ELSE Head(s).amount + SumOutputAmounts(Tail(s))

\* the prompts phase 1 must end with, given the totals
RequiredFinalPrompts ==
    (IF fee_over_threshold(total_in - total_out, weight)
     THEN << <<"feeoverthreshold", 0, TRUE>> >> ELSE <<>>)
    \o (IF tx.lock_time > 0 THEN << <<"nondefault_locktime", 0, TRUE>> >> ELSE <<>>)
    \o << <<"total", 0, TRUE>> >>
Phase1Finished ==
    /\ Len(p1_inputs) = tx.inputs_count
    /\ Len(p1_outputs) = tx.outputs_count
    /\ total_in - total_out >= 0
    /\ Len(prompts) >= Len(RequiredFinalPrompts)
    /\ SubSeq(prompts, Len(prompts) - Len(RequiredFinalPrompts) + 1, Len(prompts))
         = RequiredFinalPrompts
\* the total was confirmed: the run reached phase 2
Phase2Reached == Len(prompts) > 0 /\ prompts[Len(prompts)] = <<"total", 0, TRUE>>
PromptKinds == {prompts[k][1] : k \in 1..Len(prompts)}

\* the step condition of C1
ControlDigestsStep ==
    (pc = "p2_legacy_sign" /\ RestreamDiffers)
      => /\ get_tx_hash(h_first) # get_tx_hash(signing.h_second)
         /\ pc' = "aborted"
         /\ err'.kind = "ProcessError"
         /\ signatures' = signatures
\* C1: when a complete legacy re-stream differs from the phase-1 stream in a
\* hashed field, h_first and h_second differ, the run aborts with ProcessError
\* and ecdsa_sign is not called for the input.
C1_ControlDigests == [][ControlDigestsStep]_vars
C1_Witness ==
    /\ pc = "aborted"
    /\ err.at = "p2_legacy_sign"
    /\ RestreamOutputDiffers
    /\ signatures = <<>>

\* C2: a signature is computed, or anything placed in a response, only after
\* phase 1 finished: all inputs and outputs streamed, fee >= 0, and the prompts
\* end with the required fee, lock-time and total confirmations, accepted, in
\* that order.
C2_NoSignatureBeforePhase1Ends ==
    (signatures # <<>> \/ sent # <<>> \/ tx_req.serialized # "None") => Phase1Finished
C2_Witness ==
    /\ signatures # <<>>
    /\ tx.lock_time > 0
    /\ fee_over_threshold(total_in - total_out, weight)

\* C3: after the phase-1 loops total_in and total_out are the sums of the input
\* and output amounts; NotEnoughFunds is raised exactly for a negative fee,
\* before the fee, lock-time or total prompt and before any signature; a run
\* past the fee test has fee >= 0.
C3_Fee ==
    /\ (pc \in {"p1_fee", "p1_confirm_fee", "p1_confirm_locktime", "p1_confirm_total"}
        \/ err.at = "p1_fee" \/ Phase2Reached)
         => /\ total_in = SumInputAmounts(p1_inputs)
            /\ total_out = SumOutputAmounts(p1_outputs)
    /\ err.kind = "NotEnoughFunds"
         => /\ total_in - total_out < 0
            /\ PromptKinds \cap {"feeoverthreshold", "nondefault_locktime", "total"} = {}
            /\ signatures = <<>>
            /\ sent = <<>>
    /\ (pc \in {"p1_confirm_fee", "p1_confirm_locktime", "p1_confirm_total"}
        \/ Phase2Reached)
         => /\ total_in - total_out >= 0
            /\ SumOutputAmounts(p1_outputs) + (total_in - total_out)
                 = SumInputAmounts(p1_inputs)
C3_Witness ==
    /\ err.kind = "NotEnoughFunds"
    /\ tx.inputs_count > 0
    /\ total_in > 0

\* C4: at most one output of a run is accepted without a confirmation prompt.
C4_OneUnconfirmedChange == Len(unconfirmed) <= 1

\* C5: when a run has aborted, no response that carries a signature has
\* reached the host.
C5_NoSignatureReleasedBeforeAbort ==
    pc = "aborted" => \A k \in 1..Len(sent) : sent[k].signature = NoSignature

\* the step condition of C6
ClassFlipStep ==
    /\ ((pc \in {"p2_segwit_input", "p2_witness"}
         \/ (pc = "p2_legacy_input" /\ signing.k = i))
        /\ IsSegwitClass(txi') # segwit[i])
         => (pc' = "aborted" /\ err'.kind = "ProcessError"
             /\ signatures' = signatures)
    /\ (pc = "p2_legacy_sign"
        /\ \E k \in 1..Len(restream.inputs) :
              IsSegwitClass(restream.inputs[k]) # segwit[k - 1])
         => (pc' = "aborted" /\ err'.kind = "ProcessError"
             /\ signatures' = signatures)
\* C6: an input that phase 2 serialises or signs (the segwit serialisation
\* pass, the signed index of legacy inline signing, the witness pass) and whose
\* script family is of the other class than segwit[i] aborts the run with
\* ProcessError in that step, with no call of ecdsa_sign; a completed legacy
\* re-stream holding an input of the other class than recorded aborts likewise.
C6_ClassFlip == [][ClassFlipStep]_vars
C6_Witness ==
    /\ pc = "aborted"
    /\ err.at = "p2_witness"
    /\ err.kind = "ProcessError"
    /\ IsSegwitClass(txi) # segwit[i]

\* the key that made a logged signature is in the descriptor of its input
KeyInMultisig(s) ==
    s.multisig = NoMultisig \/ multisig_has_pubkey(s.multisig, public_key(s.signature[2]))

\* C7: ecdsa_sign is never called for an input whose multisig descriptor does
\* not hold the public key derived from the input's path.
C7_SignNeverInvoked == \A n \in 1..Len(signatures) : KeyInMultisig(signatures[n])

\* the step condition of C8
PrevTxStep ==
    pc \in {"prev_meta", "prev_input", "prev_output"}
      => /\ (pc = "prev_meta" /\ prevtx'.tx.outputs_cnt <= txi.prev_index)
              => (pc' = "aborted" /\ err'.kind = "ProcessError"
                  /\ prevtx'.txh = <<>>)
         /\ total_in' # total_in
              => /\ pc = "prev_output"
                 /\ txi.prev_index < prevtx.tx.outputs_cnt
                 /\ get_tx_hash(prevtx'.txh) = txi.prev_hash
                 /\ prevtx'.txh = PrevTxBytes
                 /\ total_in' = total_in + PrevTxOutputs[txi.prev_index + 1].amount
         /\ pc' = "aborted"
              => (err'.kind = "ProcessError" /\ total_in' = total_in)
\* C8: get_prevtx_output_value aborts with ProcessError, total_in unchanged and
\* nothing of the previous transaction requested, when prev_index is not below
\* the declared output count; total_in grows only after the last previous
\* output, by the amount of output prev_index of the transaction prev_hash
\* names, when the streamed bytes hash to prev_hash; any other end of the
\* stream is an abort with ProcessError that leaves total_in unchanged.
C8_PrevTx == [][PrevTxStep]_vars
C8_Witness ==
    /\ pc = "aborted"
    /\ err.at = "prev_output"
    /\ err.kind = "ProcessError"
    /\ prevtx.txh # PrevTxBytes
    /\ prevtx.amount_out > 0

\* the wallet prefix of the k-th input streamed in phase 1
Prefix(k) == DropLast(p1_inputs[k].address_n, BIP32_WALLET_DEPTH)

\* C9: the wallet path is the prefix of the first phase-1 input as long as
\* every input so far has that same non-empty prefix, and unknown from the
\* first input on that disagrees or is too short, whatever follows.
C9_WalletPathLatch ==
    wallet_path =
        IF p1_inputs = <<>> THEN <<>>
        ELSE IF \A k \in 1..Len(p1_inputs) : Prefix(k) # <<>> /\ Prefix(k) = Prefix(1)
        THEN Prefix(1)
        ELSE NoPath
C9_Witness ==
    /\ Len(p1_inputs) = 3
    /\ Prefix(1) # <<>>
    /\ Prefix(2) # Prefix(1)
    /\ Prefix(3) = Prefix(1)
    /\ wallet_path = NoPath

\* input_check_multisig_fingerprint raises for r
FingerprintRejects(r) ==
    /\ multisig_fp.mismatch = FALSE
    /\ \/ r.multisig = NoMultisig
       \/ multisig_fingerprint(r.multisig) # multisig_fp.fingerprint

\* the step condition of C10
WalletPathCheckStep ==
    pc \in {"p2_segwit_input", "p2_legacy_input", "p2_witness"}
      => /\ (wallet_path # NoPath
             /\ DropLast(txi'.address_n, BIP32_WALLET_DEPTH) # wallet_path)
              => (pc' = "aborted" /\ err'.kind = "ProcessError"
                  /\ signatures' = signatures)
         /\ (wallet_path = NoPath /\ pc' = "aborted")
              => \/ pc = "p2_segwit_input" /\ ~IsSegwitClass(txi')
                 \/ /\ pc = "p2_legacy_input"
                    /\ signing.k = i
                    /\ \/ FingerprintRejects(txi')
                       \/ txi'.script_type \notin {"SPENDADDRESS", "SPENDMULTISIG"}
                 \/ /\ pc = "p2_witness"
                    /\ \/ FingerprintRejects(txi')
                       \/ ~IsSegwitClass(txi')
                       \/ txi'.amount > bip143_in
                       \/ /\ txi'.multisig # NoMultisig
                          /\ ~multisig_has_pubkey(txi'.multisig,
                                                  public_key(txi'.address_n))
\* C10: with a wallet path established, every input answered in phase 2 whose
\* path minus its last two components differs from it aborts the run with
\* ProcessError in that step, with no call of ecdsa_sign; with the wallet path
\* unknown, a step that aborts does so for another reason than the path.
C10_WalletPathCheck == [][WalletPathCheckStep]_vars
C10_Witness ==
    /\ pc = "aborted"
    /\ err.at = "p2_legacy_input"
    /\ signing.k # i
    /\ wallet_path # NoPath
    /\ DropLast(txi.address_n, BIP32_WALLET_DEPTH) # wallet_path

\* a step of phase 1 that runs phase1_process_input past the path validation
ClassifiesInput ==
    (pc = "p1_input" /\ pc' # "p1_foreign") \/ pc = "p1_foreign"
\* the step condition of C11
MultisigLatchStep ==
    /\ multisig_fp.mismatch => multisig_fp'.mismatch
    /\ (ClassifiesInput
        /\ \/ txi'.multisig = NoMultisig
           \/ /\ multisig_fp.fingerprint # <<>>
              /\ multisig_fingerprint(txi'.multisig) # multisig_fp.fingerprint)
         => multisig_fp'.mismatch
    /\ (/\ ~multisig_fp.mismatch
        /\ pc = "p2_witness" \/ (pc = "p2_legacy_input" /\ signing.k = i)
        /\ \/ txi'.multisig = NoMultisig
           \/ multisig_fingerprint(txi'.multisig) # multisig_fp.fingerprint)
         => (pc' = "aborted" /\ err'.kind = "ProcessError"
             /\ signatures' = signatures)
\* C11: once multisig_fp.mismatch is set it stays set, and every phase-1 input
\* without a multisig descriptor, or with one that disagrees with the recorded
\* fingerprint, sets it; when it is not set, an input answered for signing in
\* phase 2 (the signed index of a legacy re-stream, an input of the witness
\* pass) that has no descriptor or a non-matching one aborts the run with
\* ProcessError in that step, with no call of ecdsa_sign.
C11_MultisigLatch == [][MultisigLatchStep]_vars
C11_Witness ==
    /\ pc = "aborted"
    /\ err.at = "p2_witness"
    /\ err.kind = "ProcessError"
    /\ ~multisig_fp.mismatch
    /\ txi.multisig = NoMultisig
    /\ IsSegwitClass(txi)
    /\ DropLast(txi.address_n, BIP32_WALLET_DEPTH) = wallet_path
    /\ txi.amount <= bip143_in

\* the bytes the host has received, in order
RECURSIVE Concat(_)
Concat(responses) ==
    IF responses = <<>> THEN <<>>
    ELSE Head(responses).serialized_tx \o Concat(Tail(responses))
Stream == Concat(sent)
IsStub(x) == x = <<"byte", 0>>
IsWitness(x) == x[1] \in {"witness_p2wpkh", "witness_p2wsh"}
IsWitnessItem(x) == IsStub(x) \/ IsWitness(x)
WitnessSection == SelectSeq(Stream, IsWitnessItem)
\* the signature inside a witness
WitnessSignature(x) == IF x[1] = "witness_p2wpkh" THEN x[2] ELSE x[3]
\* some input was classified segwit in phase 1
SomeSegwit == \E k \in DOMAIN segwit : segwit[k]

\* C12: in a completed run with a segwit-classified input the witness items the
\* host received are one per input, in index order: for a segwit-classified
\* input a witness holding the signature made for that index, for any other
\* input the empty-witness stub; in a completed run without a segwit input the
\* host received no witness item.
C12_WitnessSection ==
    pc = "done"
      => IF SomeSegwit
         THEN /\ Len(WitnessSection) = tx.inputs_count
              /\ \A k \in 1..Len(WitnessSection) :
                    IF segwit[k - 1]
                    THEN /\ IsWitness(WitnessSection[k])
                         /\ \E n \in 1..Len(signatures) :
                               /\ signatures[n].index = k - 1
                               /\ signatures[n].segwit
                               /\ signatures[n].signature
                                    = WitnessSignature(WitnessSection[k])
                    ELSE IsStub(WitnessSection[k])
         ELSE WitnessSection = <<>>
C12_Witness ==
    /\ pc = "done"
    /\ tx.inputs_count = 2
    /\ segwit[0]
    /\ ~segwit[1]
    /\ Len(WitnessSection) = 2

\* C13: in a completed run the host has received, for every segwit-classified
\* input k, a response tagged signature_index = k that carries the signature
\* made for input k and the witness built from it.
C13_WitnessTaggedWithSignature ==
    pc = "done"
      => \A k \in DOMAIN segwit :
            segwit[k]
              => \E n \in 1..Len(sent) :
                    /\ sent[n].signature_index = k
                    /\ sent[n].signature # NoSignature
                    /\ \E s \in 1..Len(signatures) :
                          /\ signatures[s].index = k
                          /\ signatures[s].signature = sent[n].signature
                    /\ \E m \in 1..Len(sent[n].serialized_tx) :
                          /\ IsWitness(sent[n].serialized_tx[m])
                          /\ WitnessSignature(sent[n].serialized_tx[m])
                               = sent[n].signature

\* the phase-1 inputs before the one being processed
EarlierInputs == SubSeq(p1_inputs, 1, Len(p1_inputs) - 1)

\* C14: when phase 1 has aborted with DataError on a segwit input that declares
\* amount 0, that input is in neither h_first nor the prevout and sequence
\* streams of hash143, and total_in, bip143_in and the segwit map are as the
\* earlier inputs left them.
C14_ZeroAmountBeforeHashing ==
    (/\ pc = "aborted"
     /\ err.kind = "DataError"
     /\ err.at \in {"p1_input", "p1_foreign"}
     /\ IsSegwitClass(txi)
     /\ txi.amount = 0)
      => /\ Len(h_first) = Len(EarlierInputs)
         /\ Len(hash143.prevouts) = Len(EarlierInputs)
         /\ Len(hash143.sequences) = Len(EarlierInputs)
         /\ total_in = SumInputAmounts(EarlierInputs)
         /\ bip143_in = SumInputAmounts(SelectSeq(EarlierInputs, IsSegwitClass))
         /\ DOMAIN segwit = 0..(Len(EarlierInputs) - 1)

\* C15: every output folded into the phase-1 hashes is the accepted change
\* output (the first one accepted without a prompt) or was confirmed by the
\* user; a declined output confirmation is the last prompt of the run, which
\* has aborted with ActionCancelled with the declined output in neither
\* h_first, the output stream of hash143 nor total_out, and no later output
\* requested.
C15_OutputConfirmation ==
    /\ \A k \in 0..(Len(hash143.outputs) - 1) :
          \/ unconfirmed # <<>> /\ k = unconfirmed[1]
          \/ \E n \in 1..Len(prompts) : prompts[n] = <<"output", k, TRUE>>
    /\ \A n \in 1..Len(prompts) :
          (prompts[n][1] = "output" /\ ~prompts[n][3])
            => /\ n = Len(prompts)
               /\ pc = "aborted"
               /\ err = [kind |-> "ActionCancelled", at |-> "p1_confirm_output"]
               /\ prompts[n][2] = i
               /\ Len(p1_outputs) = i + 1
               /\ Len(hash143.outputs) = i
               /\ Len(h_first) = Len(p1_inputs) + i
               /\ total_out = SumOutputAmounts(SubSeq(p1_outputs, 1, i))

\* C16: a declined foreign-address confirmation is the last prompt of the run,
\* which has aborted with the input neither classified nor added to total_in.
C16_ForeignAddressDeclined ==
    \A n \in 1..Len(prompts) :
       (prompts[n][1] = "foreign_address" /\ ~prompts[n][3])
         => /\ n = Len(prompts)
            /\ pc = "aborted"
            /\ prompts[n][2] \notin DOMAIN segwit
            /\ total_in = SumInputAmounts(EarlierInputs)

IsTxOut(x) == x[1] = "txout"
\* what phase 1 hashed for the k-th output
HashedTxOut(k) ==
    <<"txout", p1_outputs[k].amount, output_derive_script(p1_outputs[k])>>

\* C17: in a completed run of a transaction with inputs, segwit or legacy, the
\* serialized outputs the host received are, index by index, the amount and
\* script bytes phase 1 hashed and confirmed.
C17_SerializedOutputsAsConfirmed ==
    (pc = "done" /\ tx.inputs_count > 0)
      => /\ Len(SelectSeq(Stream, IsTxOut)) = tx.outputs_count
         /\ \A k \in 1..tx.outputs_count :
               SelectSeq(Stream, IsTxOut)[k] = HashedTxOut(k)

IsTxIn(x) == x[1] = "txin"
\* the controller state a suspension point belongs to
ControllerRank(p, nothing_answered) ==
    CASE p = "done" -> 3
      [] p \in {"p2_segwit_input", "p2_legacy_input", "p2_legacy_output",
                "p2_legacy_sign", "p2_output", "p2_witness_loop", "p2_witness",
                "p2_finish"} -> 2
      [] p \in {"p1_input", "p1_output"} /\ nothing_answered -> 0
      [] OTHER -> 1
RankNow == ControllerRank(pc, p1_inputs = <<>> /\ p1_outputs = <<>>)
RankNext == ControllerRank(pc', p1_inputs' = <<>> /\ p1_outputs' = <<>>)
\* the step condition of C18
StateOrderStep ==
    /\ pc \notin {"aborted", "done"}
    /\ pc' # "aborted" => (RankNext = RankNow \/ RankNext = RankNow + 1)
    /\ RankNow = 0 => RankNext # 0
    /\ finished' <= 1
    /\ (finished' = 1) = (pc' = "done")
    /\ finished' # finished
         => /\ pc = "p2_finish"
            /\ Len(SelectSeq(Concat(sent'), IsTxIn)) = tx.inputs_count
            /\ Len(SelectSeq(Concat(sent'), IsTxOut)) = tx.outputs_count
            /\ Len(SelectSeq(Concat(sent'), IsWitnessItem))
                 = IF SomeSegwit THEN tx.inputs_count ELSE 0
            /\ Concat(sent')[Len(Concat(sent'))] = <<"u32", tx.lock_time>>
\* C18: no step leaves Aborted or Done; a step that does not abort stays in
\* its controller state or enters the next of Initialized, Phase1, Phase2,
\* Done; request_tx_finish is sent at most once, exactly in the step that
\* enters Done, when the host has received every input, every output, the
\* witness section and, last, the lock-time footer.
C18_StateOrder == [][StateOrderStep]_vars
C18_Witness ==
    /\ pc = "done"
    /\ finished = 1
    /\ tx.inputs_count = 2
    /\ SomeSegwit

\* the length of the header: version, marker and flag when segwit, input count
HeaderLen == IF SomeSegwit THEN 4 ELSE 2
WitnessLen == IF SomeSegwit THEN tx.inputs_count ELSE 0

\* C19: in a completed run the host has received, in this order and nothing
\* else: the version, the segwit marker and flag iff some input is
\* segwit-classified, the input count, one serialized input per index (a
\* legacy one with the prev_hash and prev_index of that index), the output
\* count, one serialized output per index, the witness section, the
\* lock-time footer.
C19_StreamOrder ==
    pc = "done"
      => /\ Len(Stream) = HeaderLen + tx.inputs_count + 1 + tx.outputs_count
                            + WitnessLen + 1
         /\ Stream[1] = <<"u32", tx.version>>
         /\ SomeSegwit => (Stream[2] = <<"varint", 0>> /\ Stream[3] = <<"varint", 1>>)
         /\ Stream[HeaderLen] = <<"varint", tx.inputs_count>>
         /\ \A k \in 1..tx.inputs_count :
               /\ IsTxIn(Stream[HeaderLen + k])
               /\ ~segwit[k - 1]
                    => /\ Stream[HeaderLen + k][2] = p1_inputs[k].prev_hash
                       /\ Stream[HeaderLen + k][3] = p1_inputs[k].prev_index
         /\ Stream[HeaderLen + tx.inputs_count + 1] = <<"varint", tx.outputs_count>>
         /\ \A k \in 1..tx.outputs_count :
               IsTxOut(Stream[HeaderLen + tx.inputs_count + 1 + k])
         /\ \A k \in 1..WitnessLen :
               IsWitnessItem(Stream[HeaderLen + tx.inputs_count + 1
                                      + tx.outputs_count + k])
         /\ Stream[Len(Stream)] = <<"u32", tx.lock_time>>

\* the placeholder of a re-streamed input: the locking script of the output
\* it spends (P2PKH) or the multisig redeem script
IsPlaceholder(script, r) ==
    /\ script # <<>>
    /\ script[1] = IF r.script_type = "SPENDMULTISIG" THEN "output_script_multisig"
                   ELSE "output_script_p2pkh"

\* the re-stream for legacy input i is over: h_sign and h_second hold what
\* the claim says of every re-streamed input and output
RestreamComplete ==
    LET n == tx.inputs_count
        m == tx.outputs_count
        hs == signing.h_sign
        h2 == signing.h_second
    IN /\ Len(restream.inputs) = n
       /\ Len(restream.outputs) = m
       /\ Len(hs) = 2 + n + 1 + m + 2
       /\ hs[1] = <<"u32", tx.version>>
       /\ hs[2] = <<"varint", n>>
       /\ \A k \in 1..n :
             LET r == restream.inputs[k]
             IN /\ IsTxIn(hs[2 + k])
                /\ hs[2 + k][2] = r.prev_hash
                /\ hs[2 + k][3] = r.prev_index
                /\ hs[2 + k][5] = r.sequence
                /\ IF k = i + 1 THEN IsPlaceholder(hs[2 + k][4], r)
                   ELSE hs[2 + k][4] = <<>>
                /\ h2[k] = <<"txin_check", r.prev_hash, r.prev_index, r.script_type,
                             r.address_n, r.sequence, r.amount>>
       /\ hs[2 + n + 1] = <<"varint", m>>
       /\ \A k \in 1..m :
             /\ IsTxOut(hs[2 + n + 1 + k])
             /\ hs[2 + n + 1 + k][2] = restream.outputs[k].amount
             /\ h2[n + k] = hs[2 + n + 1 + k]
       /\ Len(h2) = n + m
       /\ hs[Len(hs) - 1] = <<"u32", tx.lock_time>>
       /\ hs[Len(hs)] = <<"u32", SIGHASH_ALL>>

LegacyRestreamStep ==
    /\ pc = "p2_legacy_input"
         => /\ Len(restream'.inputs) = signing.k + 1
            /\ restream'.outputs = <<>>
            /\ signatures' = signatures
    /\ pc = "p2_legacy_output"
         => /\ restream'.inputs = restream.inputs
            /\ Len(restream.inputs) = tx.inputs_count
            /\ Len(restream'.outputs) = signing.k + 1
            /\ signatures' = signatures
    /\ pc = "p2_legacy_sign" => RestreamComplete
    /\ (signatures' # signatures /\ ~signatures'[Len(signatures')].segwit)
         => /\ pc = "p2_legacy_sign"
            /\ h_first = signing.h_second
            /\ signatures'[Len(signatures')].index = i
            /\ signatures'[Len(signatures')].signature =
                   ecdsa_sign(restream.inputs[i + 1].address_n,
                              get_tx_hash(signing.h_sign))

\* C20: to sign legacy input i the controller asks again for every input and
\* then every output, by ascending index; when the re-stream is over, h_sign
\* holds every input with an empty script_sig except input i, which carries
\* its placeholder, h_second holds every input as received and the very
\* outputs of h_sign, and the signature is made only then, over h_sign, with
\* h_second equal to h_first.
C20_LegacyRestream == [][LegacyRestreamStep]_vars

C20_Witness ==
    /\ signatures # <<>>
    /\ ~signatures[Len(signatures)].segwit
    /\ signatures[Len(signatures)].index = 1
    /\ tx.inputs_count = 2
    /\ Len(restream.inputs) = 2
    /\ Len(restream.outputs) = tx.outputs_count

\* the sum of the amounts of the inputs phase 1 has classified as segwit
RECURSIVE SegwitConfirmed(_)
SegwitConfirmed(k) ==
    IF k = 0 THEN 0
    ELSE SegwitConfirmed(k - 1)
           + (IF (k - 1) \in DOMAIN segwit /\ segwit[k - 1] THEN p1_inputs[k].amount
              ELSE 0)
\* the sum of the amounts the segwit signatures s[1..k] commit to
RECURSIVE SegwitSigned(_, _)
SegwitSigned(s, k) ==
    IF k = 0 THEN 0
    ELSE SegwitSigned(s, k - 1) + (IF s[k].segwit THEN s[k].amount ELSE 0)

Bip143PoolInv ==
    /\ bip143_in >= 0
    /\ bip143_in = SegwitConfirmed(Len(p1_inputs)) - SegwitSigned(signatures, Len(signatures))
    /\ SegwitSigned(signatures, Len(signatures)) <= SegwitConfirmed(Len(p1_inputs))
    /\ signatures = <<>> => bip143_in = SegwitConfirmed(Len(p1_inputs))

Bip143PoolStep ==
    /\ Bip143PoolInv
    /\ Bip143PoolInv'
    /\ (pc = "p2_witness" /\ txi'.amount > bip143_in)
         => /\ pc' = "aborted"
            /\ err'.kind = "ProcessError"
            /\ signatures' = signatures
            /\ bip143_in' = bip143_in
    /\ (signatures' # signatures /\ signatures'[Len(signatures')].segwit)
         => /\ pc = "p2_witness"
            /\ signatures'[Len(signatures')].amount = txi'.amount
            /\ txi'.amount <= bip143_in
            /\ bip143_in' = bip143_in - txi'.amount
    /\ bip143_in' < bip143_in => signatures' # signatures

\* C21: bip143_in is never negative. It is the sum of the amounts of the
\* inputs classified as segwit in phase 1 less the amounts the segwit
\* signatures made so far commit to; a witness-pass answer that declares more
\* than bip143_in ends the run with ProcessError, unsigned, and a segwit
\* signature takes exactly its declared amount out of bip143_in, so the
\* signed amounts never add up to more than the phase-1 segwit amounts.
C21_Bip143Pool == [][Bip143PoolStep]_vars

C21_Witness ==
    /\ pc = "aborted"
    /\ err = [kind |-> "ProcessError", at |-> "p2_witness"]
    /\ IsSegwitClass(txi)
    /\ txi.amount > bip143_in
    /\ bip143_in > 0
    /\ Len(signatures) = 1
    /\ signatures[1].segwit
    /\ signatures[1].index = 0
    /\ i = 1

\* a step of phase 2: the one that answers confirm_total and enters phase 2,
\* or any step after the total was confirmed
Phase2Step == pc = "p1_confirm_total" \/ Phase2Reached

Phase2FrameStep ==
    /\ Phase2Step
         => /\ segwit' = segwit
            /\ wallet_path' = wallet_path
            /\ multisig_fp' = multisig_fp
            /\ total_in' = total_in
            /\ total_out' = total_out
            /\ change_out' = change_out
            /\ h_first' = h_first
            /\ tx' = tx
            /\ hash143' = hash143
    /\ Phase2Reached => DOMAIN segwit = 0..(tx.inputs_count - 1)
    /\ Phase2Reached' => DOMAIN segwit' = 0..(tx.inputs_count - 1)

\* C22: from the answer to confirm_total on, no step changes the segwit map,
\* the wallet path, the multisig fingerprint and its mismatch flag, total_in,
\* total_out, change_out or h_first (nor the transaction and the BIP143
\* accumulator), whatever the host answers; the segwit map has an entry for
\* every input index throughout phase 2.
C22_Phase2Frame == [][Phase2FrameStep]_vars

C22_Witness ==
    /\ pc = "done"
    /\ tampers > 0
    /\ SomeSegwit
    /\ tx.inputs_count = 2
    /\ bip143_in < SegwitConfirmed(Len(p1_inputs))
    /\ Len(sent) > 1

\* phase-1 output k (from 1) was folded into the totals without a prompt
AcceptedAsChange(k) == \E j \in 1..Len(unconfirmed) : unconfirmed[j] = k - 1

\* C23: an output is folded into the totals as change, without a prompt,
\* only if phase 1 saw at least one input, the wallet path is known, every
\* phase-1 input is on it and so is the output; with the wallet path unknown
\* or with no inputs declared, no output goes unconfirmed.
C23_ChangeNeedsWalletPath ==
    /\ \A k \in 1..Len(p1_outputs) :
          AcceptedAsChange(k)
            => /\ Len(p1_inputs) >= 1
               /\ wallet_path # NoPath
               /\ wallet_path # <<>>
               /\ \A n \in 1..Len(p1_inputs) :
                     DropLast(p1_inputs[n].address_n, BIP32_WALLET_DEPTH) = wallet_path
               /\ DropLast(p1_outputs[k].address_n, BIP32_WALLET_DEPTH) = wallet_path
    /\ (wallet_path = NoPath \/ tx.inputs_count = 0) => unconfirmed = <<>>
====
